---- MODULE Spec2Model ----
(***************************************************************************)
(* Model of avrdude's linuxspi programmer driver (linuxspi.c): the SPI     *)
(* transfer primitive, the sysfs GPIO writer, and the open / initialize /  *)
(* program enable / chip erase / close handlers, driven through one        *)
(* programming session.                                                    *)
(***************************************************************************)
EXTENDS Integers, Sequences, FiniteSets, TLC

(***************************************************************************)
(* Bounds of the model.                                                    *)
(***************************************************************************)
PinBits == 8          \* width of a pin number word in the model
MaxLine == 2          \* GPIO lines 0..MaxLine exist on the board
MaxFopenFail == 101   \* a control file opens after at most this many failures, or never
MaxErase == 1         \* chip erases requested in one session
MaxBaud == 1          \* configured clock rates 0..MaxBaud
MaxOpenFiles == 2     \* GPIO operations are run on their own until this many FILEs are open

(***************************************************************************)
(* Pin numbers: the inversion flag is the top bit of the word.             *)
(***************************************************************************)
PIN_INVERSE == 2 ^ (PinBits - 1)

\* gpio & ~PIN_INVERSE
ClearInverse(gpio) == gpio % PIN_INVERSE

\* gpio & PIN_INVERSE
InverseBit(gpio) == ((gpio \div PIN_INVERSE) % 2) * PIN_INVERSE

\* snprintf(buf, sizeof(buf), "%d", v): the word printed as a signed decimal
FormatD(v) == IF v >= PIN_INVERSE THEN ToString(v - 2 * PIN_INVERSE) ELSE ToString(v)

GpioLines == 0 .. MaxLine
Pins == GpioLines \cup {l + PIN_INVERSE : l \in GpioLines}
NULL == "NULL"
Ports == {NULL, "unknown", "/dev/spidev0.0"}

(***************************************************************************)
(* linuxspi_gpio_op_wr                                                     *)
(***************************************************************************)
FOPEN_RETRIES == 100
FOPEN_SLEEP_US == 20000

GpioOps == {"DIRECTION", "VALUE", "EXPORT", "UNEXPORT"}

\* variant: the inversion flag is left in the number
gpio_fn_unmasked(op, gpio) ==
    CASE op = "DIRECTION" -> "/sys/class/gpio/gpio" \o ToString(gpio) \o "/direction"
      [] op = "EXPORT"    -> "/sys/class/gpio/export"
      [] op = "UNEXPORT"  -> "/sys/class/gpio/unexport"
      [] op = "VALUE"     -> "/sys/class/gpio/gpio" \o ToString(gpio) \o "/value"

\* the switch on op: the file name built into fn
gpio_fn(op, gpio) ==
    LET g == ClearInverse(gpio) IN
    CASE op = "DIRECTION" -> "/sys/class/gpio/gpio" \o ToString(g) \o "/direction"
      [] op = "EXPORT"    -> "/sys/class/gpio/export"
      [] op = "UNEXPORT"  -> "/sys/class/gpio/unexport"
      [] op = "VALUE"     -> "/sys/class/gpio/gpio" \o ToString(g) \o "/value"

\* variant: while (!f && fopen_retries <= 100)
RECURSIVE fopen_loop_one_more(_, _, _)
fopen_loop_one_more(opensAt, fopens, fopen_retries) ==
    IF fopens < opensAt /\ fopen_retries <= FOPEN_RETRIES
    THEN fopen_loop_one_more(opensAt, fopens + 1, fopen_retries + 1)
    ELSE [f |-> fopens >= opensAt, fopens |-> fopens, fopen_retries |-> fopen_retries]

\* the fopen loop: the file first opens at fopen call number opensAt
\* (calls counted from 1); fopens is the number of fopen calls made so far
RECURSIVE fopen_loop(_, _, _)
fopen_loop(opensAt, fopens, fopen_retries) ==
    IF fopens < opensAt /\ fopen_retries < FOPEN_RETRIES
    THEN fopen_loop(opensAt, fopens + 1, fopen_retries + 1)
    ELSE [f |-> fopens >= opensAt, fopens |-> fopens, fopen_retries |-> fopen_retries]

\* the loop tabulated by the number of the first successful fopen call
fopen_result == [opensAt \in 1 .. MaxFopenFail + FOPEN_RETRIES + 2 |-> fopen_loop(opensAt, 1, 0)]

\* sysfs: which control files exist; gpioN/... exists while line N is exported
FileExists(sys, op, gpio) ==
    op \in {"EXPORT", "UNEXPORT"} \/ ClearInverse(gpio) \in sys.exported

\* sysfs: the effect of a value arriving in a control file
KernelLine(val) == {n \in GpioLines : ToString(n) = val}

SysfsWrite(sys, op, gpio, val) ==
    CASE op = "EXPORT" ->
           [sys EXCEPT !.exported = @ \cup KernelLine(val),
                       !.direction = [n \in GpioLines |->
                           IF n \in KernelLine(val) \ sys.exported THEN "in" ELSE @[n]]]
      [] op = "UNEXPORT" ->
           [sys EXCEPT !.exported = @ \ KernelLine(val),
                       !.direction = [n \in GpioLines |->
                           IF n \in KernelLine(val) THEN "none" ELSE @[n]]]
      [] op = "DIRECTION" ->
           [sys EXCEPT !.direction[ClearInverse(gpio)] = val]
      [] op = "VALUE" ->
           [sys EXCEPT !.value[ClearInverse(gpio)] = val]

\* variant: a failed fprintf is not reported
linuxspi_gpio_op_wr_write_unchecked(sys, op, gpio, val, env) ==
    LET opensAt == IF FileExists(sys, op, gpio) THEN env.delay + 1 ELSE FOPEN_RETRIES + 2
        l == fopen_result[opensAt]
        rec(wrote, ret) == [call |-> "gpio_op_wr", op |-> op, fn |-> gpio_fn(op, gpio),
                            val |-> val, wrote |-> wrote, ret |-> ret]
    IN  IF ~l.f
        THEN [ret |-> -1, sys |-> sys, call |-> rec(FALSE, -1),
              fopens |-> l.fopens, usleeps |-> l.fopen_retries]
        ELSE IF env.wfail
        THEN [ret |-> 0, sys |-> sys, call |-> rec(FALSE, 0),
              fopens |-> l.fopens, usleeps |-> l.fopen_retries]
        ELSE [ret |-> 0, sys |-> SysfsWrite(sys, op, gpio, val), call |-> rec(TRUE, 0),
              fopens |-> l.fopens, usleeps |-> l.fopen_retries]

\* env.delay: failed fopen calls before an existing file opens;
\* env.wfail: fprintf(f, val) < 0.  The result carries the return value, the
\* system state afterwards, a record of the call, and the numbers of fopen
\* and usleep(20000) calls made.
linuxspi_gpio_op_wr(sys, op, gpio, val, env) ==
    LET opensAt == IF FileExists(sys, op, gpio) THEN env.delay + 1 ELSE FOPEN_RETRIES + 2
        l == fopen_result[opensAt]
        rec(wrote, ret) == [call |-> "gpio_op_wr", op |-> op, fn |-> gpio_fn(op, gpio),
                            val |-> val, wrote |-> wrote, ret |-> ret]
    IN  IF ~l.f
        THEN [ret |-> -1, sys |-> sys, call |-> rec(FALSE, -1),
              fopens |-> l.fopens, usleeps |-> l.fopen_retries]
        ELSE IF env.wfail
        THEN \* returns without fclose(f)
             [ret |-> -1, sys |-> [sys EXCEPT !.files = @ + 1], call |-> rec(FALSE, -1),
              fopens |-> l.fopens, usleeps |-> l.fopen_retries]
        ELSE [ret |-> 0, sys |-> SysfsWrite(sys, op, gpio, val), call |-> rec(TRUE, 0),
              fopens |-> l.fopens, usleeps |-> l.fopen_retries]

\* a call on the spidev handle, recorded in the same shape
SpidevCall(name, port, ret) ==
    [call |-> name, op |-> "SPIDEV", fn |-> port, val |-> "", wrote |-> FALSE, ret |-> ret]

(***************************************************************************)
(* linuxspi_open                                                           *)
(***************************************************************************)
\* variant: the RESET pin is not checked
open_config_error_port_only(port, pinno) ==
    port = NULL \/ port = "unknown"

\* the two checks that end in exit(1)
open_config_error(port, pinno) ==
    \/ port = NULL \/ port = "unknown"
    \/ pinno = 0

\* variant: the inversion flag is ignored
open_reset_level_always_low(pinno) == "low"

\* the value written to the direction file to assert RESET
open_reset_level(pinno) == IF InverseBit(pinno) # 0 THEN "high" ELSE "low"

\* env.fd: what open(port, O_RDWR) returns; env.export, env.direction: the
\* environment of the two GPIO operations
linuxspi_open(sys, port, pinno, env) ==
    IF open_config_error(port, pinno)
    THEN [exit |-> TRUE, ret |-> 1, fd |-> 0, sys |-> sys, calls |-> <<>>]
    ELSE
    LET o == SpidevCall("open", port, env.fd) IN
    IF env.fd < 0
    THEN [exit |-> FALSE, ret |-> -1, fd |-> env.fd, sys |-> sys, calls |-> <<o>>]
    ELSE
    LET s1 == [sys EXCEPT !.spidev = TRUE]
        e == linuxspi_gpio_op_wr(s1, "EXPORT", pinno, FormatD(ClearInverse(pinno)), env.export)
    IN
    IF e.ret < 0
    THEN [exit |-> FALSE, ret |-> -1, fd |-> env.fd, sys |-> e.sys, calls |-> <<o, e.call>>]
    ELSE
    LET d == linuxspi_gpio_op_wr(e.sys, "DIRECTION", pinno, open_reset_level(pinno),
                                 env.direction)
    IN
    IF d.ret < 0
    THEN [exit |-> FALSE, ret |-> -1, fd |-> env.fd, sys |-> d.sys,
          calls |-> <<o, e.call, d.call>>]
    ELSE [exit |-> FALSE, ret |-> 0, fd |-> env.fd, sys |-> d.sys,
          calls |-> <<o, e.call, d.call>>]

(***************************************************************************)
(* linuxspi_close                                                          *)
(***************************************************************************)
\* variant: the spidev handle is closed after the GPIO teardown
linuxspi_close_spidev_last(sys, port, pinno, env) ==
    LET d == linuxspi_gpio_op_wr(sys, "DIRECTION", pinno, "in", env.direction)
        u == linuxspi_gpio_op_wr(d.sys, "UNEXPORT", pinno, FormatD(pinno), env.unexport)
        c == SpidevCall("close", port, 0)
    IN  [sys |-> [u.sys EXCEPT !.spidev = FALSE], calls |-> <<d.call, u.call, c>>]

\* variant: teardown stops at the first GPIO operation that fails
linuxspi_close_stop_on_error(sys, port, pinno, env) ==
    LET c == SpidevCall("close", port, 0)
        s1 == [sys EXCEPT !.spidev = FALSE]
        d == linuxspi_gpio_op_wr(s1, "DIRECTION", pinno, "in", env.direction)
        u == linuxspi_gpio_op_wr(d.sys, "UNEXPORT", pinno, FormatD(pinno), env.unexport)
    IN  IF d.ret < 0
        THEN [sys |-> d.sys, calls |-> <<c, d.call>>]
        ELSE [sys |-> u.sys, calls |-> <<c, d.call, u.call>>]

linuxspi_close(sys, port, pinno, env) ==
    LET c == SpidevCall("close", port, 0)
        s1 == [sys EXCEPT !.spidev = FALSE]
        d == linuxspi_gpio_op_wr(s1, "DIRECTION", pinno, "in", env.direction)
        u == linuxspi_gpio_op_wr(d.sys, "UNEXPORT", pinno, FormatD(pinno), env.unexport)
    IN  [sys |-> u.sys, calls |-> <<c, d.call, u.call>>]

(***************************************************************************)
(* linuxspi_spi_duplex, linuxspi_cmd                                       *)
(***************************************************************************)
DEFAULT_SPEED_HZ == 400000

\* variant: pgm->baudrate is not consulted
linuxspi_spi_duplex_default_speed(baudrate, tx, len, kret) ==
    [tr |-> [tx |-> tx, len |-> len, delay_usecs |-> 1, speed_hz |-> DEFAULT_SPEED_HZ,
             bits_per_word |-> 8],
     kret |-> kret,
     error_printed |-> kret # len,
     ret |-> IF kret = -1 THEN -1 ELSE 0]

\* kret: what ioctl(fd_spidev, SPI_IOC_MESSAGE(1), &tr) returns
linuxspi_spi_duplex(baudrate, tx, len, kret) ==
    [tr |-> [tx |-> tx, len |-> len, delay_usecs |-> 1,
             speed_hz |-> IF baudrate = 0 THEN DEFAULT_SPEED_HZ ELSE baudrate,
             bits_per_word |-> 8],
     kret |-> kret,
     error_printed |-> kret # len,
     ret |-> IF kret = -1 THEN -1 ELSE 0]

linuxspi_cmd(baudrate, cmd, kret) == linuxspi_spi_duplex(baudrate, cmd, 4, kret)

(***************************************************************************)
(* linuxspi_program_enable                                                 *)
(***************************************************************************)
\* an operation encoding: four bytes, each a fixed value or left alone (-1)
avr_set_bits(op, cmd) == [i \in 1 .. 4 |-> IF op[i] >= 0 THEN op[i] ELSE cmd[i]]

ZeroCmd == <<0, 0, 0, 0>>

\* variant: res[1] is compared instead of res[2]
linuxspi_program_enable_wrong_byte(p, baudrate, kret, res) ==
    IF p.pgm_enable = <<>>
    THEN [ret |-> -1, xfer |-> <<>>, ops |-> <<"program_enable">>]
    ELSE LET cmd == avr_set_bits(p.pgm_enable, ZeroCmd)
             x == linuxspi_cmd(baudrate, cmd, kret)
         IN  [ret |-> IF res[2] # cmd[2] THEN -2 ELSE 0, xfer |-> <<x>>,
              ops |-> <<"program_enable", "cmd">>]

\* res: the contents of res[] after pgm->cmd() returns (the device's answer,
\* or whatever the buffer held if the kernel did not fill it); xfer: the
\* transfers issued, none or one; ops: the calls made, in order
linuxspi_program_enable(p, baudrate, kret, res) ==
    IF p.pgm_enable = <<>>
    THEN [ret |-> -1, xfer |-> <<>>, ops |-> <<"program_enable">>]
    ELSE LET cmd == avr_set_bits(p.pgm_enable, ZeroCmd)
             x == linuxspi_cmd(baudrate, cmd, kret)
         IN  [ret |-> IF res[3] # cmd[2] THEN -2 ELSE 0, xfer |-> <<x>>,
              ops |-> <<"program_enable", "cmd">>]

(***************************************************************************)
(* linuxspi_initialize                                                     *)
(***************************************************************************)
PGM_ENABLE_RETRIES == 65

\* variant: TPI parts are not turned away
initialize_rejects_never(p) == FALSE

\* if (p->flags & AVRPART_HAS_TPI) return -1;
initialize_rejects(p) == p.tpi

\* if (ret == 0 || ret == -1) break;
initialize_break(r) == r = 0 \/ r = -1

\* variant: while (++tries < 65)
initialize_again_preincrement(t) == t + 1 < PGM_ENABLE_RETRIES

\* while (tries++ < 65), evaluated with the value of tries before the increment
initialize_again(t) == t < PGM_ENABLE_RETRIES

(***************************************************************************)
(* linuxspi_chip_erase                                                     *)
(***************************************************************************)
\* variant: the missing encoding is reported but the function goes on
linuxspi_chip_erase_no_return(p, baudrate, kret) ==
    LET cmd == IF p.chip_erase = <<>> THEN ZeroCmd ELSE avr_set_bits(p.chip_erase, ZeroCmd)
    IN  [ret |-> <<>>, xfer |-> <<linuxspi_cmd(baudrate, cmd, kret)>>,
         ops |-> <<"cmd", "usleep", "initialize">>]

\* variant: the delay comes after pgm->initialize()
linuxspi_chip_erase_delay_last(p, baudrate, kret) ==
    IF p.chip_erase = <<>>
    THEN [ret |-> <<-1>>, xfer |-> <<>>, ops |-> <<>>]
    ELSE LET cmd == avr_set_bits(p.chip_erase, ZeroCmd)
         IN  [ret |-> <<>>, xfer |-> <<linuxspi_cmd(baudrate, cmd, kret)>>,
              ops |-> <<"cmd", "initialize", "usleep">>]

\* the part of chip_erase before pgm->initialize() takes over: ret is the
\* value returned early, or <<>> when the function goes on into initialize;
\* ops: the calls made, in order
linuxspi_chip_erase(p, baudrate, kret) ==
    IF p.chip_erase = <<>>
    THEN [ret |-> <<-1>>, xfer |-> <<>>, ops |-> <<>>]
    ELSE LET cmd == avr_set_bits(p.chip_erase, ZeroCmd)
         IN  [ret |-> <<>>, xfer |-> <<linuxspi_cmd(baudrate, cmd, kret)>>,
              ops |-> <<"cmd", "usleep", "initialize">>]

(***************************************************************************)
(* The programming session                                                 *)
(***************************************************************************)
VARIABLES
    port,        \* the port argument of open
    pinno,       \* pgm->pinno[PIN_AVR_RESET]
    baudrate,    \* pgm->baudrate
    part,        \* the AVRPART: flags and operation encodings
    fd_spidev,   \* the static file descriptor
    sys,         \* the kernel side: spidev handle, sysfs GPIO state, open FILEs
    log,         \* the device and GPIO calls made so far, in order
    pc,          \* where the session is
    caller,      \* who called initialize: "main" or "chip_erase"
    tries,       \* initialize's local
    attempts,    \* program_enable calls of the current initialize
    ambiguous,   \* how many of them returned -2
    xfers,       \* SPI transfers issued by the latest initialize or chip_erase call
    xfer,        \* the latest SPI transfer: <<>> or <<request and result>>
    pe_ret,      \* what the latest program_enable returned: <<>> or <<value>>
    open_ret,    \* what open returned
    init_ret,    \* what the latest initialize returned
    erase_ret,   \* what the latest chip_erase returned
    erases,      \* chip_erase calls so far
    ops,         \* the calls made by the latest initialize or chip_erase, in order
    pe_res,      \* res[] of the latest program_enable that sent its frame, or <<>>
    gpio_res     \* the latest GPIO operation run on its own: <<>> or <<inputs and result>>

vars == <<port, pinno, baudrate, part, fd_spidev, sys, log, pc, caller, tries,
          attempts, ambiguous, xfers, xfer, pe_ret, open_ret, init_ret, erase_ret, erases,
          ops, pe_res, gpio_res>>

config == <<port, pinno, baudrate, part>>

PGM_ENABLE_OP == <<172, 83, -1, -1>>      \* 1010 1100  0101 0011  x  x
CHIP_ERASE_OP == <<172, 128, -1, -1>>     \* 1010 1100  100x xxxx  x  x
Parts == [tpi : BOOLEAN, pgm_enable : {<<>>, PGM_ENABLE_OP},
          chip_erase : {<<>>, CHIP_ERASE_OP}]

\* what the environment can answer
FopenDelays == {n \in 0 .. MaxFopenFail : n = 0 \/ n >= FOPEN_RETRIES}
GpioEnvs == [delay : FopenDelays, wfail : BOOLEAN]
OpenFds == {-1, 3}
IoctlRets == {-1, 2, 4}
ResBuffers == {<<0, 0, 0, 0>>, <<255, 172, 83, 0>>}

Init ==
    /\ port \in Ports
    /\ pinno \in Pins
    /\ baudrate \in 0 .. MaxBaud
    /\ part \in Parts
    /\ fd_spidev = 0
    /\ sys = [spidev |-> FALSE, exported |-> {},
              direction |-> [n \in GpioLines |-> "none"],
              value |-> [n \in GpioLines |-> "none"], files |-> 0]
    /\ log = <<>>
    /\ pc = "Closed"
    /\ caller = "main"
    /\ tries = 0 /\ attempts = 0 /\ ambiguous = 0 /\ xfers = 0
    /\ xfer = <<>> /\ pe_ret = <<>>
    /\ open_ret = <<>> /\ init_ret = <<>> /\ erase_ret = <<>>
    /\ erases = 0
    /\ ops = <<>> /\ pe_res = <<>> /\ gpio_res = <<>>

\* the order in which the host program drives the handlers of one session
MayOpen == pc = "Closed"
MayInitialize == pc = "ResetAsserted"
MayChipErase == pc = "Idle" /\ erases < MaxErase
MayClose == pc \in {"ResetAsserted", "Idle"}

\* pgm->open(pgm, port)
Open ==
    /\ MayOpen
    /\ \E fd \in OpenFds, ee \in GpioEnvs, ed \in GpioEnvs :
         \E r \in {linuxspi_open(sys, port, pinno,
                                  [fd |-> fd, export |-> ee, direction |-> ed])} :
             /\ sys' = r.sys
             /\ log' = log \o r.calls
             /\ fd_spidev' = IF r.calls = <<>> THEN fd_spidev ELSE r.fd
             /\ open_ret' = IF r.exit THEN <<>> ELSE <<r.ret>>
             /\ pc' = IF r.exit THEN "Exited"
                      ELSE IF r.ret < 0 THEN "OpenFailed" ELSE "ResetAsserted"
    /\ UNCHANGED <<config, caller, tries, attempts, ambiguous, xfers, xfer, pe_ret,
                   init_ret, erase_ret, erases, ops, pe_res, gpio_res>>

\* pgm->close(pgm)
Close ==
    /\ MayClose
    /\ \E ed \in GpioEnvs, eu \in GpioEnvs :
         \E r \in {linuxspi_close(sys, port, pinno, [direction |-> ed, unexport |-> eu])} :
             /\ sys' = r.sys
             /\ log' = log \o r.calls
    /\ pc' = "Done"
    /\ UNCHANGED <<config, fd_spidev, caller, tries, attempts, ambiguous, xfers, xfer,
                   pe_ret, open_ret, init_ret, erase_ret, erases, ops, pe_res, gpio_res>>

\* linuxspi_initialize up to its first pgm->program_enable call; a chip_erase
\* that called it returns 0 when it returns
initialize_enter(who) ==
    /\ caller' = who
    /\ tries' = 0
    /\ attempts' = 0
    /\ ambiguous' = 0
    /\ pe_ret' = <<>>
    /\ pe_res' = <<>>
    /\ IF initialize_rejects(part)
       THEN /\ pc' = "Idle"
            /\ init_ret' = <<-1>>
            /\ erase_ret' = IF who = "chip_erase" THEN <<0>> ELSE erase_ret
       ELSE /\ pc' = "ProgramEnable"
            /\ init_ret' = <<>>
            /\ erase_ret' = IF who = "chip_erase" THEN <<>> ELSE erase_ret

\* pgm->initialize(pgm, p), called by the host program
Initialize ==
    /\ MayInitialize
    /\ xfers' = 0
    /\ ops' = <<"initialize">>
    /\ initialize_enter("main")
    /\ UNCHANGED <<config, fd_spidev, sys, log, xfer, open_ret, erases, gpio_res>>

\* one pass of initialize's do-while: pgm->program_enable(pgm, p), the break
\* test and the loop condition; when the loop ends, initialize returns ret and,
\* inside chip_erase, chip_erase returns 0
ProgramEnable ==
    /\ pc = "ProgramEnable"
    /\ \E kret \in IoctlRets, res \in ResBuffers :
         LET r == linuxspi_program_enable(part, baudrate, kret, res)
             again == ~initialize_break(r.ret) /\ initialize_again(tries)
         IN  /\ pe_ret' = <<r.ret>>
             /\ pe_res' = IF r.xfer = <<>> THEN <<>> ELSE res
             /\ ops' = ops \o r.ops
             /\ xfer' = IF r.xfer = <<>> THEN xfer ELSE r.xfer
             /\ xfers' = xfers + Len(r.xfer)
             /\ attempts' = attempts + 1
             /\ ambiguous' = IF r.ret = -2 THEN ambiguous + 1 ELSE ambiguous
             /\ tries' = IF initialize_break(r.ret) THEN tries ELSE tries + 1
             /\ IF again
                THEN /\ pc' = "ProgramEnable"
                     /\ UNCHANGED <<init_ret, erase_ret>>
                ELSE /\ pc' = "Idle"
                     /\ init_ret' = <<r.ret>>
                     /\ erase_ret' = IF caller = "chip_erase" THEN <<0>> ELSE erase_ret
    /\ UNCHANGED <<config, fd_spidev, sys, log, caller, open_ret, erases, gpio_res>>

\* pgm->chip_erase(pgm, p) up to the first program_enable call of the
\* initialize it runs
ChipErase ==
    /\ MayChipErase
    /\ erases' = erases + 1
    /\ \E kret \in IoctlRets :
         LET r == linuxspi_chip_erase(part, baudrate, kret)
         IN  /\ ops' = r.ops
             /\ xfers' = Len(r.xfer)
             /\ xfer' = IF r.xfer = <<>> THEN xfer ELSE r.xfer
             /\ IF r.ret # <<>>
                THEN /\ erase_ret' = r.ret
                     /\ UNCHANGED <<pc, caller, tries, attempts, ambiguous, pe_ret, pe_res,
                                    init_ret>>
                ELSE initialize_enter("chip_erase")
    /\ UNCHANGED <<config, fd_spidev, sys, log, open_ret, gpio_res>>

Next == Open \/ Initialize \/ ProgramEnable \/ ChipErase \/ Close

Spec == Init /\ [][Next]_vars

(***************************************************************************)
(* A GPIO operation on its own: linuxspi_gpio_op_wr applied to any of its  *)
(* four operations, on the RESET pin with or without the inversion flag.   *)
(***************************************************************************)
FlipInverse(gpio) == IF gpio >= PIN_INVERSE THEN gpio - PIN_INVERSE ELSE gpio + PIN_INVERSE

GpioVals(op, gpio) ==
    CASE op = "DIRECTION" -> {"in", "low", "high"}
      [] op = "VALUE"     -> {"0", "1"}
      [] OTHER            -> {FormatD(ClearInverse(gpio))}

InitGpio ==
    /\ Init
    /\ port = "/dev/spidev0.0"
    /\ baudrate = 0
    /\ part = [tpi |-> FALSE, pgm_enable |-> PGM_ENABLE_OP, chip_erase |-> CHIP_ERASE_OP]

GpioOp ==
    /\ sys.files < MaxOpenFiles
    /\ \E op \in GpioOps, gpio \in {pinno, FlipInverse(pinno)}, env \in GpioEnvs :
         \E val \in GpioVals(op, gpio) :
         \E r \in {linuxspi_gpio_op_wr(sys, op, gpio, val, env)} :
             /\ sys' = r.sys
             /\ gpio_res' = <<[op |-> op, gpio |-> gpio, val |-> val, delay |-> env.delay,
                               existed |-> FileExists(sys, op, gpio), fn |-> r.call.fn,
                               ret |-> r.ret, wrote |-> r.call.wrote, fopens |-> r.fopens,
                               slept_us |-> r.usleeps * FOPEN_SLEEP_US,
                               files |-> r.sys.files - sys.files]>>
    /\ UNCHANGED <<config, fd_spidev, log, pc, caller, tries, attempts, ambiguous, xfers,
                   xfer, pe_ret, open_ret, init_ret, erase_ret, erases, ops, pe_res>>

NextGpio == GpioOp

SpecGpio == InitGpio /\ [][NextGpio]_vars

(***************************************************************************)
(* Properties                                                              *)
(***************************************************************************)
ResetLine == ClearInverse(pinno)
Inverted == pinno >= PIN_INVERSE

IsSpidevClose(c) == c.call = "close" /\ c.op = "SPIDEV"
IsDirectionIn(c) == c.call = "gpio_op_wr" /\ c.op = "DIRECTION" /\ c.val = "in"
IsUnexport(c) == c.call = "gpio_op_wr" /\ c.op = "UNEXPORT"
IsExport(c) == c.call = "gpio_op_wr" /\ c.op = "EXPORT"

Calls(P(_)) == {i \in DOMAIN log : P(log[i])}

\* C1 (as stated): when close has run, the direction was written as "in"
\* before the unexport, and the unexport before the spidev handle was closed.
C1_GpioTeardownBeforeSpidevClose ==
    pc = "Done" =>
        \E i \in Calls(IsDirectionIn), j \in Calls(IsUnexport), k \in Calls(IsSpidevClose) :
            i < j /\ j < k

\* C1 (amended): in every execution of close the spidev handle is closed
\* first, then the direction of the RESET line is written as "in", then the
\* pin is unexported; the handle is already closed during both GPIO writes.
C1_SpidevCloseBeforeGpioTeardown ==
    pc = "Done" =>
        /\ Len(log) >= 3
        /\ IsSpidevClose(log[Len(log) - 2])
        /\ IsDirectionIn(log[Len(log) - 1])
        /\ IsUnexport(log[Len(log)])
        /\ \A k \in Calls(IsSpidevClose), i \in Calls(IsDirectionIn), j \in Calls(IsUnexport) :
              k < i /\ i < j
        /\ ~sys.spidev

C1_Witness ==
    /\ pc = "Done"
    /\ \A i \in Calls(IsDirectionIn) \cup Calls(IsUnexport) : log[i].wrote
    /\ sys.direction[ResetLine] = "none"

\* C2: the number close writes to the unexport file is the number open wrote
\* to the export file, the pin number without the inversion bit.
C2_UnexportWritesExportedLine ==
    \A i \in Calls(IsUnexport) :
        /\ log[i].val = ToString(ResetLine)
        /\ \E j \in Calls(IsExport) : log[j].val = log[i].val

\* C3: the transfer primitive returns success exactly when the kernel moved
\* len bytes; a failed call and a short transfer both return an error.
C3_ShortTransferReturnsError ==
    \A i \in DOMAIN xfer : (xfer[i].ret = 0) <=> (xfer[i].kret = xfer[i].tr.len)

\* C4: when the session is over, every export that open performed has been
\* followed by an unexport of that line, also when open failed after the
\* export.
C4_ExportedLineIsUnexported ==
    pc \in {"OpenFailed", "Done"} =>
        \A i \in Calls(IsExport) :
            log[i].wrote =>
                \E j \in Calls(IsUnexport) : j > i /\ log[j].wrote /\ log[j].val = log[i].val

\* C5: the retry loop of initialize goes on exactly while program enable
\* answers the ambiguous code, for at most 66 attempts: success after k
\* ambiguous answers takes k+1 attempts, 66 ambiguous answers end the loop
\* with a non-zero result, and nothing is attempted after a -1.
C5_ProgramEnableRetries ==
    /\ pc = "ProgramEnable" => attempts = ambiguous /\ attempts < 66
    /\ (pc = "Idle" /\ attempts > 0) =>
          /\ init_ret \in {<<0>>, <<-1>>, <<-2>>}
          /\ init_ret = pe_ret
          /\ init_ret = <<0>> => attempts = ambiguous + 1 /\ attempts <= 66
          /\ init_ret = <<-1>> => attempts = ambiguous + 1 /\ attempts <= 66
          /\ init_ret = <<-2>> => attempts = 66 /\ ambiguous = 66

C5_Witness ==
    /\ pc = "Idle"
    /\ init_ret = <<0>>
    /\ ambiguous = 64
    /\ attempts = 65

\* C6: every execution of close attempts each of its three steps exactly
\* once, whether or not the others succeed; a failed direction write does not
\* keep the unexport from being attempted.
C6_TeardownComplete ==
    /\ pc = "Done" =>
          /\ Cardinality(Calls(IsSpidevClose)) = 1
          /\ Cardinality(Calls(IsDirectionIn)) = 1
          /\ Cardinality(Calls(IsUnexport)) = 1
    /\ pc # "Done" =>
          Calls(IsSpidevClose) \cup Calls(IsDirectionIn) \cup Calls(IsUnexport) = {}

C6_Witness ==
    /\ pc = "Done"
    /\ \E i \in Calls(IsDirectionIn) : log[i].ret = -1
    /\ \E j \in Calls(IsUnexport) : log[j].ret = 0

\* C7: a successful open has exported the RESET line and then asserted it with
\* one write to the direction file, "high" for an inverted pin and "low"
\* otherwise; no call ever addresses the value file.
C7_ResetAssertedInOneWrite ==
    /\ \A i \in DOMAIN log : log[i].op # "VALUE"
    /\ pc = "ResetAsserted" =>
          /\ open_ret = <<0>>
          /\ Len(log) = 3
          /\ log[1].call = "open"
          /\ IsExport(log[2]) /\ log[2].wrote
          /\ log[3].op = "DIRECTION" /\ log[3].wrote
          /\ log[3].val = (IF Inverted THEN "high" ELSE "low")
          /\ sys.direction[ResetLine] = log[3].val

C7_Witness ==
    /\ pc = "ResetAsserted"
    /\ Inverted
    /\ sys.direction[ResetLine] = "high"

\* C8: a step that issues an SPI transfer starts in a state where open has
\* succeeded, the spidev handle is open, the RESET line is exported and its
\* direction holds the asserting value.
ResetAsserted ==
    /\ open_ret = <<0>>
    /\ sys.spidev
    /\ ResetLine \in sys.exported
    /\ sys.direction[ResetLine] = (IF Inverted THEN "high" ELSE "low")

IssuesTransfer == xfers' > 0 /\ (xfers' # xfers \/ erases' # erases)

C8_TransfersOnlyUnderReset == [][IssuesTransfer => ResetAsserted]_vars

C8_Witness ==
    /\ erases = 1
    /\ xfers > 1
    /\ ResetAsserted

\* C9: program enable does not return 0 for an attempt whose SPI transfer
\* returned an error.
C9_TransferErrorSurfaced ==
    (pe_ret = <<0>> /\ xfer # <<>>) => xfer[1].ret # -1

\* C10: with a missing port or a RESET pin number of zero, open ends the
\* process before it opens the spidev device or touches the GPIO files.
ConfigError == port \in {NULL, "unknown"} \/ pinno = 0

C10_ConfigErrorBeforeSideEffects ==
    /\ ConfigError =>
          /\ pc \in {"Closed", "Exited"}
          /\ log = <<>>
          /\ ~sys.spidev
          /\ sys.exported = {}
          /\ fd_spidev = 0
    /\ pc = "Exited" => ConfigError

C10_Witness ==
    /\ pc = "Exited"
    /\ pinno = 0
    /\ port = "/dev/spidev0.0"

\* C11: chip erase on a part without a chip-erase encoding returns -1 and
\* has issued no SPI transfer, has not slept and has not run program enable.
C11_EraseUndefinedDoesNothing ==
    (part.chip_erase = <<>> /\ erases > 0) =>
        /\ erase_ret = <<-1>>
        /\ ops = <<>>
        /\ xfers = 0
        /\ pc \in {"Idle", "Done"}

C11_Witness ==
    /\ part.chip_erase = <<>>
    /\ erases = 1
    /\ erase_ret = <<-1>>
    /\ init_ret = <<0>>

\* C12: initialize on a TPI part returns -1 to its caller, the process goes
\* on, and no program enable was attempted and no SPI transfer issued.
C12_TpiRejectedBeforeTraffic ==
    part.tpi =>
        /\ pc \notin {"ProgramEnable"}
        /\ attempts = 0
        /\ pe_ret = <<>>
        /\ (init_ret # <<>>) =>
              /\ init_ret = <<-1>>
              /\ pc \in {"Idle", "Done"}
              /\ "program_enable" \notin {ops[i] : i \in DOMAIN ops}
        /\ (init_ret # <<>> /\ erases = 0) =>
              /\ ops = <<"initialize">>
              /\ xfers = 0
              /\ xfer = <<>>

C12_Witness ==
    /\ part.tpi
    /\ init_ret = <<-1>>
    /\ erases = 0
    /\ pc = "Idle"

\* C13 (as stated): a GPIO operation makes at most 100 attempts to open its
\* control file, and fails when none of them succeeds.
FirstOpen(g) == g.delay + 1

C13_AtMost100OpenAttempts ==
    \A i \in DOMAIN gpio_res :
        /\ gpio_res[i].fopens <= 100
        /\ gpio_res[i].ret = 0 => gpio_res[i].wrote

\* C13 (amended): a GPIO operation makes at most 101 attempts to open its
\* control file, the first one and 100 retries, each retry after a 20 ms
\* sleep (2 seconds in all); it stops at the first attempt that succeeds and
\* fails when none of the 101 does.
C13_AtMost101OpenAttempts ==
    \A i \in DOMAIN gpio_res :
        LET g == gpio_res[i]
            openable == g.existed /\ FirstOpen(g) <= 101
        IN  /\ g.fopens <= 101
            /\ g.slept_us = (g.fopens - 1) * 20000
            /\ g.slept_us <= 2000000
            /\ openable => g.fopens = FirstOpen(g)
            /\ ~openable => g.fopens = 101 /\ g.ret = -1 /\ ~g.wrote

C13_Witness ==
    \E i \in DOMAIN gpio_res :
        /\ ~gpio_res[i].existed
        /\ gpio_res[i].fopens = 101
        /\ gpio_res[i].ret = -1

\* C14: each of the four GPIO operations addresses the same file for a pin
\* with the inversion flag as for the pin without it.
SysfsPath(op, n) ==
    CASE op = "EXPORT"    -> "/sys/class/gpio/export"
      [] op = "UNEXPORT"  -> "/sys/class/gpio/unexport"
      [] op = "DIRECTION" -> "/sys/class/gpio/gpio" \o ToString(n) \o "/direction"
      [] op = "VALUE"     -> "/sys/class/gpio/gpio" \o ToString(n) \o "/value"

C14_InversionKeepsPath ==
    \A i \in DOMAIN gpio_res :
        LET g == gpio_res[i]
            line == IF g.gpio >= PIN_INVERSE THEN g.gpio - PIN_INVERSE ELSE g.gpio
        IN  /\ g.fn = SysfsPath(g.op, line)
            /\ gpio_fn(g.op, line + PIN_INVERSE) = gpio_fn(g.op, line)

C14_Witness ==
    \E i \in DOMAIN gpio_res :
        /\ gpio_res[i].gpio >= PIN_INVERSE
        /\ gpio_res[i].op = "DIRECTION"
        /\ gpio_res[i].wrote

\* C15: every SPI transfer request has length 4, 8 bits per word, a delay of
\* 1 microsecond and the configured clock rate, or 400000 when none is set.
C15_TransferParameters ==
    \A i \in DOMAIN xfer :
        /\ xfer[i].tr.len = 4
        /\ xfer[i].tr.bits_per_word = 8
        /\ xfer[i].tr.delay_usecs = 1
        /\ xfer[i].tr.speed_hz = (IF baudrate > 0 THEN baudrate ELSE 400000)

C15_Witness ==
    /\ xfer # <<>>
    /\ baudrate > 0
    /\ xfer[1].tr.speed_hz = baudrate

\* C16: chip erase returns 0 only when the initialize it ran returned 0.
C16_EraseSuccessMeansProgramEnabled ==
    erase_ret = <<0>> => init_ret = <<0>>

\* C17 (as stated): a chip erase with an encoding sends the erase frame once,
\* then sleeps, then makes between 1 and 66 program-enable attempts.
EraseRan == erases > 0 /\ part.chip_erase # <<>>
EraseOrder ==
    /\ Len(ops) >= 3
    /\ ops[1] = "cmd" /\ ops[2] = "usleep" /\ ops[3] = "initialize"
    /\ \A i \in 4 .. Len(ops) :
          \/ ops[i] = "program_enable"
          \/ ops[i] = "cmd" /\ ops[i - 1] = "program_enable"
    /\ Cardinality({i \in 4 .. Len(ops) : ops[i] = "program_enable"}) = attempts
    /\ xfers = 1 + Cardinality({i \in 4 .. Len(ops) : ops[i] = "cmd"})
    /\ attempts = 0 => xfer[1].tr.tx = <<172, 128, 0, 0>>
    /\ (attempts > 0 /\ xfers > 1) => xfer[1].tr.tx # <<172, 128, 0, 0>>

C17_EraseThenDelayThenAttempts ==
    EraseRan =>
        /\ EraseOrder
        /\ erase_ret # <<>> => attempts >= 1 /\ attempts <= 66

\* C17 (amended): a chip erase with an encoding sends the erase frame once,
\* then sleeps, then runs initialize, which makes between 1 and 66
\* program-enable attempts, or none when the part is flagged TPI; no
\* program-enable transfer comes before the delay and no second erase frame
\* is sent.
C17_EraseThenDelayThenInitialize ==
    EraseRan =>
        /\ EraseOrder
        /\ erase_ret # <<>> =>
              IF part.tpi THEN attempts = 0 ELSE attempts >= 1 /\ attempts <= 66

C17_Witness ==
    /\ EraseRan
    /\ erase_ret = <<0>>
    /\ attempts = 66
    /\ xfers = 67

\* C18: a program-enable attempt on a part without the encoding returns -1
\* and transfers nothing; otherwise it sends the frame of the encoding in one
\* 4-byte transfer and returns 0 exactly when res[2] equals cmd[1], else -2.
\* (ops is empty when a later chip erase returned early and reset the count.)
EraseTransfers == IF caller = "chip_erase" THEN 1 ELSE 0

C18_ProgramEnableResult ==
    pe_ret # <<>> =>
        IF part.pgm_enable = <<>>
        THEN /\ pe_ret = <<-1>>
             /\ pe_res = <<>>
             /\ ops # <<>> => xfers = EraseTransfers
        ELSE /\ pe_ret \in {<<0>>, <<-2>>}
             /\ ops # <<>> => xfers = EraseTransfers + attempts
             /\ xfer[1].tr.tx = <<172, 83, 0, 0>>
             /\ xfer[1].tr.len = 4
             /\ (pe_ret = <<0>>) <=> (pe_res[3] = xfer[1].tr.tx[2])

C18_Witness ==
    /\ pe_ret = <<0>>
    /\ pe_res # <<>>
    /\ pe_res[3] = 83

\* C19: when open has returned an error the spidev handle is closed again.
C19_FailedOpenReleasesSpidev ==
    pc = "OpenFailed" => ~sys.spidev

\* C20: every control file a GPIO operation opened is closed when the
\* operation returns, so no FILE stays open.
C20_NoControlFileLeftOpen ==
    /\ sys.files = 0
    /\ \A i \in DOMAIN gpio_res : gpio_res[i].files = 0

====
